---- MODULE Spec2Model ----
(***************************************************************************)
(* The asynchronous document-ingestion pipeline of GDriveVectorAI:         *)
(* start_ingestion (routers/ingest.py), reprocess_document                 *)
(* (routers/documents.py), the Celery task process_and_embed_document with *)
(* check_and_complete_job (tasks.py) and the store operations they call    *)
(* (services/vector_db_service.py).                                        *)
(*                                                                         *)
(* Every store call is one committed transaction, so a task is split into  *)
(* steps at the store calls that write documents or ingestion_jobs.  The   *)
(* Drive download, the extractors and the embedding model are external and *)
(* may raise; the store itself is taken to answer every call.              *)
(***************************************************************************)
EXTENDS Naturals, Integers, Sequences, FiniteSets, TLC

\* ------------------------------------------------------------ bounds
MaxFiles == 3            \* files in the Drive folder (drive_file_ids 1..MaxFiles)
MaxFaults == 4           \* attempts that end in an exception, over all tasks
\* The same, where documents are also reprocessed (SpecReprocess).
MaxFilesReprocess == 2
MaxFaultsReprocess == 1
MaxReprocess == 1        \* reprocess requests

\* The same, where start_ingestion itself may raise (SpecIngestFaults).
MaxFaultsIngest == 2

\* The same for batch_reprocess_documents (SpecBatch).
MaxFilesBatch == 2
MaxFaultsBatch == 2
MaxBatch == 2            \* ids in one batch request

\* Characters in the text of a PDF or DOCX file with words; a text file's
\* words are shorter than a snippet.
LongText == 6000

\* create_document_version calls (SpecVersions).
MaxVersionCalls == 3
MaxKeep == 2             \* keep_latest of a cleanup request

\* Files and errors of an ingestion whose store may fail (SpecStoreFaults).
MaxFilesStore == 2
MaxFaultsStore == 2

\* The folder tree of a scan (SpecScan): files of the scanned folder, files of
\* its one sub-folder.
MaxRootFiles == 10
MaxSubFiles == 2

\* ------------------------------------------------- program constants
max_retries == 3     \* @app.task(bind=True, max_retries=3, ...)
snippet_chars == 500 \* text_snippet=text[:500]

DocIds == 1..MaxFiles
JobIds == {1}            \* one start_ingestion request creates a job
MaxTasks == MaxFiles + MaxReprocess
TaskIds == 1..MaxTasks

NULL == "NULL"
NoDoc == [status |-> "absent"]
NoJob == [status |-> "absent"]
NoTask == [pc |-> "absent"]
NullLen == -1            \* SQL NULL in an integer column
NoCall == [pc |-> "absent"]
NoScan ==
    [pc |-> "idle", tree |-> [files |-> 0, sub |-> FALSE, subfiles |-> 0,
                              subAt |-> 1],
     returned |-> 0, session_id |-> 0, total_items |-> 0, scanned_count |-> 0,
     stack |-> <<>>, count_failed |-> {}, scan_failed |-> {},
     completion_percentage |-> -1, outcome |-> "none"]
CallIds == 1..MaxVersionCalls

PDF == "application/pdf"
DOCX == "application/vnd.openxmlformats-officedocument.wordprocessingml.document"
TXT == "text/plain"
PNG == "image/png"

\* The folder's files: file d has a fixed MIME type; of every three files one
\* is a PDF, one is plain text and one has a type without extractor.
MimeOf(d) ==
    CASE d % 3 = 1 -> PDF
      [] d % 3 = 2 -> TXT
      [] OTHER     -> PNG

\* What a download can return: well-formed bytes holding words, well-formed
\* bytes holding only whitespace, malformed bytes.
Contents == {"words", "blank", "corrupt"}

VARIABLES
    docs,              \* documents table: drive_file_id -> row
    jobs,              \* ingestion_jobs table: job_id -> row
    logs,              \* processing_logs: drive_file_id -> set of <<level, message>>
    tasks,             \* the broker's process_and_embed_document messages and their runs
    ingest,            \* the start_ingestion request in flight
    folder,            \* the files the Drive folder lists
    faultsLeft,        \* attempts that may still end in an exception
    reprocessLeft,     \* reprocess requests that may still arrive
    completionWrites,  \* job_id -> number of update_job_status(.., 'completed') writes
    batch,             \* the batch_reprocess_documents request in flight
    scan_sessions,     \* scan_sessions table: id -> row (ids 1, 2, ... in a sequence)
    scan_progress,     \* scan_progress table: the rows written, in order
    scan,              \* the start_scan request and its background scan
    document_versions, \* document_versions table: drive_file_id -> rows, in order
    versionCalls       \* the create_document_version calls in flight

\* The scanner's and the versioning service's part of the state.
scanAndVersions ==
    <<scan_sessions, scan_progress, scan, document_versions, versionCalls>>

vars == <<docs, jobs, logs, tasks, ingest, folder, faultsLeft, reprocessLeft,
          completionWrites, batch, scanAndVersions>>

\* ------------------------------------------------- pure functions

\* tasks.py 86-92: the extractor chosen by MIME type.
ExtractorFor(mime) ==
    CASE mime = PDF  -> "pdf"
      [] mime = DOCX -> "docx"
      [] mime \in {TXT, "text/html", "text/csv"} -> "txt"   \* startswith('text/')
      [] OTHER -> "none"

\* tasks.py 43-63: PyPDF2 and python-docx raise on malformed bytes; the text
\* extractor decodes with errors='ignore' and never raises.
ExtractText(mime, content) ==
    CASE ExtractorFor(mime) \in {"pdf", "docx"} ->
            IF content = "corrupt" THEN "RAISE"
            ELSE IF content = "blank" THEN " \n" ELSE "words\n"
      [] ExtractorFor(mime) = "txt" ->
            IF content = "blank" THEN "  " ELSE "words"
      [] OTHER -> "UNSUPPORTED"

\* text.strip()
Strip(text) == IF text \in {" \n", "  ", ""} THEN "" ELSE "words"

\* len(text): "words\n", the words of a PDF or DOCX file, stands for a text of
\* LongText characters; the other texts have their own length.
TextLength(text) == IF text = "words\n" THEN LongText ELSE Len(text)

\* len(text[:500])
SnippetLength(text) ==
    IF TextLength(text) <= snippet_chars THEN TextLength(text) ELSE snippet_chars

\* f"Unsupported mime type: {mime_type}"
UnsupportedMsg(mime) == "Unsupported mime type: " \o mime
NoTextMsg == "No text extracted from document"

\* ------------------------------------------------- store operations

\* vector_db_service.py 45-54: UPDATE documents SET status, error_message
\* WHERE drive_file_id; no row, no change.
update_document_status(D, d, status, error_message) ==
    IF D[d] = NoDoc THEN D
    ELSE [D EXCEPT ![d].status = status, ![d].error_message = error_message]

\* vector_db_service.py 56-75: upsert to 'pending'; a conflict keeps
\* error_message, embedding, snippet and full_text_length.
create_document_record(D, d, job_id) ==
    IF D[d] = NoDoc
    THEN [D EXCEPT ![d] = [status |-> "pending", error_message |-> NULL,
                           job_id |-> job_id, embedding |-> FALSE,
                           snippet_length |-> NullLen,
                           full_text_length |-> NullLen]]
    ELSE [D EXCEPT ![d].status = "pending", ![d].job_id = job_id]

\* An upsert that adds to the stored length instead of overwriting it.
insert_document_accumulating(D, d, job_id, snippet_length, full_text_length) ==
    IF D[d] = NoDoc
    THEN [D EXCEPT ![d] = [status |-> "completed", error_message |-> NULL,
                           job_id |-> job_id, embedding |-> TRUE,
                           snippet_length |-> snippet_length,
                           full_text_length |-> full_text_length]]
    ELSE [D EXCEPT ![d].status = "completed", ![d].job_id = job_id,
                   ![d].embedding = TRUE,
                   ![d].snippet_length = snippet_length,
                   ![d].full_text_length =
                       IF @ = NullLen THEN full_text_length
                       ELSE @ + full_text_length]

\* The status written without the data.
insert_document_status_only(D, d, job_id, snippet_length, full_text_length) ==
    IF D[d] = NoDoc
    THEN [D EXCEPT ![d] = [status |-> "completed", error_message |-> NULL,
                           job_id |-> job_id, embedding |-> FALSE,
                           snippet_length |-> NullLen,
                           full_text_length |-> NullLen]]
    ELSE [D EXCEPT ![d].status = "completed", ![d].job_id = job_id]

\* vector_db_service.py 16-43: upsert with status 'completed', the embedding,
\* the snippet and full_text_length in one statement; error_message is not in
\* the SET list.
insert_document(D, d, job_id, snippet_length, full_text_length) ==
    IF D[d] = NoDoc
    THEN [D EXCEPT ![d] = [status |-> "completed", error_message |-> NULL,
                           job_id |-> job_id, embedding |-> TRUE,
                           snippet_length |-> snippet_length,
                           full_text_length |-> full_text_length]]
    ELSE [D EXCEPT ![d].status = "completed", ![d].job_id = job_id,
                   ![d].embedding = TRUE,
                   ![d].snippet_length = snippet_length,
                   ![d].full_text_length = full_text_length]

\* vector_db_service.py 161-171
create_ingestion_job(J, job_id, total_files) ==
    [J EXCEPT ![job_id] = [status |-> "running", total_files |-> total_files,
                           processed_files |-> 0, failed_files |-> 0,
                           error_message |-> NULL]]

\* vector_db_service.py 173-183: unconditional UPDATE of the job row.
update_job_status(J, job_id, status, error_message) ==
    IF job_id \notin JobIds \/ J[job_id] = NoJob THEN J
    ELSE [J EXCEPT ![job_id].status = status,
                   ![job_id].error_message = error_message]

\* A failed file counted in failed_files alone.
update_job_progress_failed_only(J, job_id, processed_files, failed_files) ==
    IF job_id \notin JobIds \/ J[job_id] = NoJob THEN J
    ELSE [J EXCEPT ![job_id].processed_files =
                       @ + (IF failed_files > 0 THEN 0 ELSE processed_files),
                   ![job_id].failed_files = @ + failed_files]

\* vector_db_service.py 185-195: both counters move in one UPDATE.
update_job_progress(J, job_id, processed_files, failed_files) ==
    IF job_id \notin JobIds \/ J[job_id] = NoJob THEN J
    ELSE [J EXCEPT ![job_id].processed_files = @ + processed_files,
                   ![job_id].failed_files = @ + failed_files]

\* vector_db_service.py 257-266: append-only insert.
add_processing_log(L, d, level, message) ==
    [L EXCEPT ![d] = @ \cup {<<level, message>>}]

\* ------------------------------------------------- initial state

\* Empty tables, an empty broker, no request in flight.
EmptyStore ==
    /\ docs = [d \in DocIds |-> NoDoc]
    /\ jobs = [j \in JobIds |-> NoJob]
    /\ logs = [d \in DocIds |-> {}]
    /\ tasks = [t \in TaskIds |-> NoTask]
    /\ ingest = [pc |-> "idle", job_id |-> 0, files |-> <<>>, idx |-> 0]
    /\ completionWrites = [j \in JobIds |-> 0]
    /\ batch = [pc |-> "idle", ids |-> <<>>, idx |-> 0,
                queued |-> <<>>, not_found |-> <<>>, failed |-> <<>>]
    /\ scan_sessions = <<>>
    /\ scan_progress = <<>>
    /\ scan = NoScan
    /\ document_versions = [d \in DocIds |-> <<>>]
    /\ versionCalls = [c \in CallIds |-> NoCall]

Init ==
    /\ EmptyStore
    /\ folder \in {S \in SUBSET DocIds : Cardinality(S) <= MaxFiles}
    /\ faultsLeft = MaxFaults
    /\ reprocessLeft = 0

InitReprocess ==
    /\ EmptyStore
    /\ folder \in {S \in SUBSET DocIds : Cardinality(S) <= MaxFilesReprocess}
    /\ faultsLeft = MaxFaultsReprocess
    /\ reprocessLeft = MaxReprocess

\* ------------------------------------------------- the broker

Dispatched == {t \in TaskIds : tasks[t] # NoTask}
NextTask == Cardinality(Dispatched) + 1

\* process_and_embed_document.delay(...): a new message, retries = 0.
\* job_id 0 stands for None.
delay(T, d, job_id) ==
    [T EXCEPT ![NextTask] =
        [pc |-> "queued", doc |-> d, job_id |-> job_id, retries |-> 0,
         err |-> NULL, failed |-> 0,
         nproc |-> 0, nfail |-> 0, outcome |-> "none"]]

\* ------------------------------------------------- start_ingestion

\* str(uuid.uuid4()): an id no job has yet.
FreshJobId == Cardinality({j \in JobIds : jobs[j] # NoJob}) + 1

\* drive_service.py 28-38: the folder's files, here in the order of their ids.
RECURSIVE list_files_in_folder(_)
list_files_in_folder(S) ==
    IF S = {} THEN <<>>
    ELSE LET d == CHOOSE x \in S : \A y \in S : x <= y
         IN  <<d>> \o list_files_in_folder(S \ {d})

\* The job row written before the listing is looked at.
StartIngestionJobFirst ==
    /\ ingest.pc = "idle"
    /\ FreshJobId \in JobIds
    /\ LET files == list_files_in_folder(folder) IN
         /\ jobs' = create_ingestion_job(jobs, FreshJobId, Len(files))
         /\ ingest' = IF files = <<>>
                      THEN [ingest EXCEPT !.pc = "no_files"]
                      ELSE [pc |-> "create_record", job_id |-> FreshJobId,
                            files |-> files, idx |-> 1]
    /\ UNCHANGED <<docs, logs, tasks, folder, faultsLeft, reprocessLeft, completionWrites, batch,
                   scanAndVersions>>

\* ingest.py 23-36: list the folder; an empty listing is answered 404 before
\* anything is written; otherwise the job row is created with
\* total_files = len(files).
StartIngestion ==
    /\ ingest.pc = "idle"
    /\ FreshJobId \in JobIds
    /\ LET files == list_files_in_folder(folder) IN
         IF files = <<>>
         THEN /\ ingest' = [ingest EXCEPT !.pc = "no_files"]
              /\ UNCHANGED jobs
         ELSE /\ jobs' = create_ingestion_job(jobs, FreshJobId, Len(files))
              /\ ingest' = [pc |-> "create_record", job_id |-> FreshJobId,
                            files |-> files, idx |-> 1]
    /\ UNCHANGED <<docs, logs, tasks, folder, faultsLeft, reprocessLeft, completionWrites, batch,
                   scanAndVersions>>

\* The loop going on to the dispatch without the pending row.
IngestSkipRecord ==
    /\ ingest.pc = "create_record"
    /\ ingest' = [ingest EXCEPT !.pc = "dispatch"]
    /\ UNCHANGED <<docs, jobs, logs, tasks, folder, faultsLeft, reprocessLeft, completionWrites, batch,
                   scanAndVersions>>

\* ingest.py 39-48: the pending row of the loop's current file.
IngestCreateRecord ==
    /\ ingest.pc = "create_record"
    /\ docs' = create_document_record(docs, ingest.files[ingest.idx], ingest.job_id)
    /\ ingest' = [ingest EXCEPT !.pc = "dispatch"]
    /\ UNCHANGED <<jobs, logs, tasks, folder, faultsLeft, reprocessLeft, completionWrites, batch,
                   scanAndVersions>>

\* ingest.py 50-66: the task of the loop's current file, then the next file or
\* the response.
IngestDispatch ==
    /\ ingest.pc = "dispatch"
    /\ tasks' = delay(tasks, ingest.files[ingest.idx], ingest.job_id)
    /\ ingest' = IF ingest.idx = Len(ingest.files)
                 THEN [ingest EXCEPT !.pc = "returned"]
                 ELSE [ingest EXCEPT !.pc = "create_record", !.idx = @ + 1]
    /\ UNCHANGED <<docs, jobs, logs, folder, faultsLeft, reprocessLeft, completionWrites, batch,
                   scanAndVersions>>

\* ------------------------------------------------- reprocess_document

\* The task queued without the row's job reference.
ReprocessDroppingJob(d) ==
    /\ reprocessLeft > 0
    /\ reprocessLeft' = reprocessLeft - 1
    /\ IF docs[d] = NoDoc
       THEN UNCHANGED <<docs, tasks>>
       ELSE /\ docs' = update_document_status(docs, d, "pending", NULL)
            /\ tasks' = delay(tasks, d, 0)
    /\ UNCHANGED <<jobs, logs, ingest, folder, faultsLeft, completionWrites, batch,
                   scanAndVersions>>

\* documents.py 88-121: 404 for an unknown id; otherwise the row goes back to
\* 'pending' with error_message NULL and one task is queued with the row's
\* stored job_id.
Reprocess(d) ==
    /\ reprocessLeft > 0
    /\ reprocessLeft' = reprocessLeft - 1
    /\ IF docs[d] = NoDoc
       THEN UNCHANGED <<docs, tasks>>
       ELSE /\ docs' = update_document_status(docs, d, "pending", NULL)
            /\ tasks' = delay(tasks, d, docs[d].job_id)
    /\ UNCHANGED <<jobs, logs, ingest, folder, faultsLeft, completionWrites, batch,
                   scanAndVersions>>

\* ------------------------------------------------- process_and_embed_document

AtPc(t, pc) == tasks[t] # NoTask /\ tasks[t].pc = pc

\* tasks.py 77-79: a worker takes the message (first delivery or retry) and
\* sets the row to 'processing', which also sets error_message to NULL.
TaskStart(t) ==
    /\ AtPc(t, "queued")
    /\ docs' = update_document_status(docs, tasks[t].doc, "processing", NULL)
    /\ logs' = add_processing_log(logs, tasks[t].doc, "info", "Started processing")
    /\ tasks' = [tasks EXCEPT ![t].pc = "download"]
    /\ UNCHANGED <<jobs, ingest, folder, faultsLeft, reprocessLeft, completionWrites, batch,
                   scanAndVersions>>

\* The except branch is entered with str(e).
Raise(t, msg) ==
    /\ faultsLeft > 0
    /\ faultsLeft' = faultsLeft - 1
    /\ tasks' = [tasks EXCEPT ![t].pc = "exc_status", ![t].err = msg]

\* tasks.py 81-116: download, extract by MIME type, embed.  None of it writes
\* documents or ingestion_jobs; the info log lines are its only store writes.
\* tasks.py 82: download_file raises.
TaskDownloadFails(t) ==
    /\ AtPc(t, "download")
    /\ Raise(t, "Download failed")
    /\ UNCHANGED <<docs, jobs, logs, ingest, folder, reprocessLeft, completionWrites, batch,
                   scanAndVersions>>

\* tasks.py 92-94: no extractor for the MIME type.
TaskUnsupported(t) ==
    /\ AtPc(t, "download")
    /\ ExtractorFor(MimeOf(tasks[t].doc)) = "none"
    /\ logs' = add_processing_log(logs, tasks[t].doc, "info", "Downloaded file")
    /\ tasks' = [tasks EXCEPT ![t].pc = "fail_status",
                              ![t].err = UnsupportedMsg(MimeOf(tasks[t].doc))]
    /\ UNCHANGED <<docs, jobs, ingest, folder, faultsLeft, reprocessLeft, completionWrites, batch,
                   scanAndVersions>>

\* tasks.py 86-89: the PDF or DOCX extractor raises on the downloaded bytes.
TaskExtractRaises(t) ==
    /\ AtPc(t, "download")
    /\ \E content \in Contents :
          ExtractText(MimeOf(tasks[t].doc), content) = "RAISE"
    /\ Raise(t, "Extraction failed")
    /\ logs' = add_processing_log(logs, tasks[t].doc, "info", "Downloaded file")
    /\ UNCHANGED <<docs, jobs, ingest, folder, reprocessLeft, completionWrites, batch,
                   scanAndVersions>>

\* The texts an extractor can return for the task's file.
ExtractedTexts(t) ==
    {ExtractText(MimeOf(tasks[t].doc), content) : content \in Contents}
        \ {"RAISE", "UNSUPPORTED"}

\* tasks.py 101-103: not text.strip().
TaskEmptyText(t) ==
    /\ AtPc(t, "download")
    /\ \E text \in ExtractedTexts(t) : Strip(text) = ""
    /\ logs' = add_processing_log(logs, tasks[t].doc, "info", "Downloaded file")
    /\ tasks' = [tasks EXCEPT ![t].pc = "fail_status", ![t].err = NoTextMsg]
    /\ UNCHANGED <<docs, jobs, ingest, folder, faultsLeft, reprocessLeft, completionWrites, batch,
                   scanAndVersions>>

\* tasks.py 110-115: text extracted, get_text_embedding raises.
TaskEmbedFails(t) ==
    /\ AtPc(t, "download")
    /\ \E text \in ExtractedTexts(t) : Strip(text) # ""
    /\ Raise(t, "Embedding failed")
    /\ logs' = add_processing_log(
                  add_processing_log(logs, tasks[t].doc, "info", "Downloaded file"),
                  tasks[t].doc, "info", "Extracted characters")
    /\ UNCHANGED <<docs, jobs, ingest, folder, reprocessLeft, completionWrites, batch,
                   scanAndVersions>>

\* tasks.py 110-116: text extracted and embedded.
TaskEmbedded(t) ==
    /\ AtPc(t, "download")
    /\ \E text \in ExtractedTexts(t) : Strip(text) # ""
    /\ logs' = [logs EXCEPT ![tasks[t].doc] = @ \cup
                  {<<"info", "Downloaded file">>, <<"info", "Extracted characters">>,
                   <<"info", "Generated embedding">>}]
    /\ tasks' = [tasks EXCEPT ![t].pc = "insert"]
    /\ UNCHANGED <<docs, jobs, ingest, folder, faultsLeft, reprocessLeft, completionWrites, batch,
                   scanAndVersions>>

\* tasks.py 95 and 104: the row is set to 'failed' with the message.
TaskFailStatus(t) ==
    /\ AtPc(t, "fail_status")
    /\ docs' = update_document_status(docs, tasks[t].doc, "failed", tasks[t].err)
    /\ tasks' = [tasks EXCEPT ![t].pc = "fail_log"]
    /\ UNCHANGED <<jobs, logs, ingest, folder, faultsLeft, reprocessLeft, completionWrites, batch,
                   scanAndVersions>>

\* The retry test off by one: retries <= max_retries.
RetryOnceMore(T, t) ==
    IF T[t].retries <= max_retries
    THEN [T EXCEPT ![t].pc = "queued", ![t].retries = @ + 1]
    ELSE [T EXCEPT ![t].pc = "done", ![t].outcome = "exhausted"]

\* tasks.py 164-172: self.retry re-queues the message with retries + 1 while
\* self.request.retries < self.max_retries; otherwise the task ends.
RetryOrGiveUp(T, t) ==
    IF T[t].retries < max_retries
    THEN [T EXCEPT ![t].pc = "queued", ![t].retries = @ + 1]
    ELSE [T EXCEPT ![t].pc = "done", ![t].outcome = "exhausted"]

\* The permanent failure handled like an exception: counted, then retried.
TaskFailLogRetrying(t) ==
    /\ AtPc(t, "fail_log")
    /\ logs' = add_processing_log(logs, tasks[t].doc, "warning", tasks[t].err)
    /\ jobs' = update_job_progress(jobs, tasks[t].job_id, 1, 1)
    /\ tasks' = RetryOrGiveUp([tasks EXCEPT ![t].nproc = @ + 1,
                                            ![t].nfail = @ + 1], t)
    /\ UNCHANGED <<docs, ingest, folder, faultsLeft, reprocessLeft, completionWrites, batch,
                   scanAndVersions>>

\* tasks.py 96-99 and 105-108: the warning log line, the job counters, return.
TaskFailLog(t) ==
    /\ AtPc(t, "fail_log")
    /\ logs' = add_processing_log(logs, tasks[t].doc, "warning", tasks[t].err)
    /\ IF tasks[t].job_id # 0
       THEN /\ jobs' = update_job_progress(jobs, tasks[t].job_id, 1, 1)
            /\ tasks' = [tasks EXCEPT ![t].pc = "done", ![t].outcome = "failed",
                                      ![t].nproc = @ + 1, ![t].nfail = @ + 1]
       ELSE /\ jobs' = jobs
            /\ tasks' = [tasks EXCEPT ![t].pc = "done", ![t].outcome = "failed"]
    /\ UNCHANGED <<docs, ingest, folder, faultsLeft, reprocessLeft, completionWrites, batch,
                   scanAndVersions>>

\* tasks.py 118-130: insert_document with text_snippet=text[:500] and
\* full_text_length=len(text) of the text that was embedded.
TaskInsert(t) ==
    /\ AtPc(t, "insert")
    /\ \E text \in ExtractedTexts(t) :
          /\ Strip(text) # ""
          /\ docs' = insert_document(docs, tasks[t].doc, tasks[t].job_id,
                                     SnippetLength(text), TextLength(text))
    /\ tasks' = [tasks EXCEPT ![t].pc = "enrich"]
    /\ UNCHANGED <<jobs, logs, ingest, folder, faultsLeft, reprocessLeft, completionWrites, batch,
                   scanAndVersions>>

\* An enrichment error handled like any other exception of the task.
TaskEnrichFailing(t) ==
    /\ AtPc(t, "enrich")
    /\ logs' = add_processing_log(logs, tasks[t].doc, "info",
                                  "Successfully completed processing")
    /\ \/ /\ tasks' = [tasks EXCEPT ![t].pc = "progress"]
          /\ UNCHANGED faultsLeft
       \/ Raise(t, "Enrichment failed")
    /\ UNCHANGED <<docs, jobs, ingest, folder, reprocessLeft, completionWrites, batch,
                   scanAndVersions>>

\* tasks.py 132-146: the success log line and the enrichment.
\* enrich_document_metadata catches its own errors and returns {}
\* (enrichment_service.py 101-103), after which the task logs "enriched" all
\* the same; an error that does reach the task is caught at 140 and logged as
\* a warning.  Neither writes status.  Without a job the task returns here.
TaskEnrich(t) ==
    /\ AtPc(t, "enrich")
    /\ \E ok \in BOOLEAN :
          logs' = [logs EXCEPT ![tasks[t].doc] = @ \cup
                     {<<"info", "Successfully completed processing">>,
                      IF ok THEN <<"info", "Document metadata enriched">>
                            ELSE <<"warning", "Enrichment failed">>}]
    /\ tasks' = IF tasks[t].job_id # 0
                THEN [tasks EXCEPT ![t].pc = "progress"]
                ELSE [tasks EXCEPT ![t].pc = "done", ![t].outcome = "completed"]
    /\ UNCHANGED <<docs, jobs, ingest, folder, faultsLeft, reprocessLeft, completionWrites, batch,
                   scanAndVersions>>

\* tasks.py 147: update_job_progress(job_id, processed_files=1).
TaskProgress(t) ==
    /\ AtPc(t, "progress")
    /\ jobs' = update_job_progress(jobs, tasks[t].job_id, 1, 0)
    /\ tasks' = [tasks EXCEPT ![t].pc = "check", ![t].nproc = @ + 1]
    /\ UNCHANGED <<docs, logs, ingest, folder, faultsLeft, reprocessLeft, completionWrites, batch,
                   scanAndVersions>>

\* tasks.py 179-186: check_and_complete_job reads the job row and compares.
CheckJob(t) ==
    /\ AtPc(t, "check")
    /\ LET job == jobs[tasks[t].job_id] IN
         tasks' = IF job # NoJob /\ job.processed_files >= job.total_files
                  THEN [tasks EXCEPT ![t].pc = "complete",
                                     ![t].failed = job.failed_files]
                  ELSE [tasks EXCEPT ![t].pc = "done", ![t].outcome = "completed"]
    /\ UNCHANGED <<docs, jobs, logs, ingest, folder, faultsLeft, reprocessLeft, completionWrites, batch,
                   scanAndVersions>>

\* f"Completed with {failed} failed files"
CompletedMsg(failed) ==
    IF failed > 0 THEN "Completed with " \o ToString(failed) \o " failed files"
    ELSE NULL

\* tasks.py 187-192: update_job_status(job_id, 'completed', ...) from the row
\* read before.
CompleteJob(t) ==
    /\ AtPc(t, "complete")
    /\ jobs' = update_job_status(jobs, tasks[t].job_id, "completed",
                                 CompletedMsg(tasks[t].failed))
    /\ completionWrites' = [completionWrites EXCEPT ![tasks[t].job_id] = @ + 1]
    /\ tasks' = [tasks EXCEPT ![t].pc = "done", ![t].outcome = "completed"]
    /\ UNCHANGED <<docs, logs, ingest, folder, faultsLeft, reprocessLeft, batch,
                   scanAndVersions>>

\* tasks.py 151-156: the except branch sets the row to 'failed' with str(e).
TaskExcStatus(t) ==
    /\ AtPc(t, "exc_status")
    /\ docs' = update_document_status(docs, tasks[t].doc, "failed", tasks[t].err)
    /\ tasks' = [tasks EXCEPT ![t].pc = "exc_log"]
    /\ UNCHANGED <<jobs, logs, ingest, folder, faultsLeft, reprocessLeft, completionWrites, batch,
                   scanAndVersions>>

\* tasks.py 157-172: the error log line, the job counters, then retry or end.
TaskExcLog(t) ==
    /\ AtPc(t, "exc_log")
    /\ logs' = [logs EXCEPT ![tasks[t].doc] = @ \cup
                  {<<"error", "Processing failed">>,
                   IF tasks[t].retries < max_retries
                   THEN <<"info", "Retrying processing">>
                   ELSE <<"error", "Max retries exceeded">>}]
    /\ IF tasks[t].job_id # 0
       THEN /\ jobs' = update_job_progress(jobs, tasks[t].job_id, 1, 1)
            /\ tasks' = RetryOrGiveUp([tasks EXCEPT ![t].nproc = @ + 1,
                                                    ![t].nfail = @ + 1], t)
       ELSE /\ jobs' = jobs
            /\ tasks' = RetryOrGiveUp(tasks, t)
    /\ UNCHANGED <<docs, ingest, folder, faultsLeft, reprocessLeft, completionWrites, batch,
                   scanAndVersions>>

TaskStep(t) ==
    \/ TaskStart(t)
    \/ TaskDownloadFails(t)
    \/ TaskUnsupported(t)
    \/ TaskExtractRaises(t)
    \/ TaskEmptyText(t)
    \/ TaskEmbedFails(t)
    \/ TaskEmbedded(t)
    \/ TaskFailStatus(t)
    \/ TaskFailLog(t)
    \/ TaskInsert(t)
    \/ TaskEnrich(t)
    \/ TaskProgress(t)
    \/ CheckJob(t)
    \/ CompleteJob(t)
    \/ TaskExcStatus(t)
    \/ TaskExcLog(t)

\* One start_ingestion request and the tasks it dispatches.
Next ==
    \/ StartIngestion
    \/ IngestCreateRecord
    \/ IngestDispatch
    \/ \E t \in TaskIds : TaskStep(t)

Spec == Init /\ [][Next]_vars

\* While a message is queued or running, the workers take some step.
FairSpec == Spec /\ WF_vars(\E t \in TaskIds : TaskStep(t))

\* The same with reprocess requests arriving at any time.
NextReprocess ==
    \/ Next
    \/ \E d \in DocIds : Reprocess(d)

SpecReprocess == InitReprocess /\ [][NextReprocess]_vars

\* ingest.py 68-71: an exception anywhere in start_ingestion (the listing, a
\* store call, the broker) is answered 500; the handler undoes nothing of what
\* it has written and dispatched before.
IngestRaises ==
    /\ ingest.pc \in {"idle", "create_record", "dispatch"}
    /\ faultsLeft > 0
    /\ faultsLeft' = faultsLeft - 1
    /\ ingest' = [ingest EXCEPT !.pc = "error"]
    /\ UNCHANGED <<docs, jobs, logs, tasks, folder, reprocessLeft, completionWrites, batch,
                   scanAndVersions>>

InitIngestFaults ==
    /\ EmptyStore
    /\ folder \in {S \in SUBSET DocIds : Cardinality(S) <= MaxFiles}
    /\ faultsLeft = MaxFaultsIngest
    /\ reprocessLeft = 0

\* The same as Next, where start_ingestion may fail part-way.
NextIngestFaults ==
    \/ Next
    \/ IngestRaises

SpecIngestFaults == InitIngestFaults /\ [][NextIngestFaults]_vars

\* ------------------------------------------------- the store failing under a task

StoreDownMsg == "Store unavailable"
StoreDownAfterInsertMsg == "Store unavailable after insert"

\* tasks.py 70-150: a store call of the try block raises (the status write at
\* 78, a log write, the writes of a permanent failure at 95-98 and 104-107,
\* insert_document, the success log at 132, update_job_progress at 147).
\* Nothing of the failing call is written and the except branch is entered.
TaskStoreRaises(t) ==
    /\ tasks[t] # NoTask
    /\ tasks[t].pc \in {"queued", "download", "fail_status", "fail_log",
                        "insert", "enrich", "progress"}
    /\ Raise(t, IF tasks[t].pc \in {"enrich", "progress"}
                THEN StoreDownAfterInsertMsg ELSE StoreDownMsg)
    /\ UNCHANGED <<docs, jobs, logs, ingest, folder, reprocessLeft,
                   completionWrites, batch, scanAndVersions>>

\* tasks.py 178-194: check_and_complete_job catches what its store calls
\* raise and logs it; the task returns.
CheckJobRaises(t) ==
    /\ tasks[t] # NoTask
    /\ tasks[t].pc \in {"check", "complete"}
    /\ faultsLeft > 0
    /\ faultsLeft' = faultsLeft - 1
    /\ tasks' = [tasks EXCEPT ![t].pc = "done", ![t].outcome = "completed"]
    /\ UNCHANGED <<docs, jobs, logs, ingest, folder, reprocessLeft,
                   completionWrites, batch, scanAndVersions>>

\* tasks.py 151-172: a store call of the except branch raises: the status
\* write (156), the error log (157), update_job_progress (162) or the last
\* log line (167, 172).  What was written before stays, the exception leaves
\* the task and no retry is scheduled.
TaskHandlerRaises(t) ==
    /\ tasks[t] # NoTask
    /\ faultsLeft > 0
    /\ faultsLeft' = faultsLeft - 1
    /\ \/ /\ tasks[t].pc = "exc_status"
          /\ UNCHANGED <<logs, jobs>>
          /\ tasks' = [tasks EXCEPT ![t].pc = "done", ![t].outcome = "crashed"]
       \/ /\ tasks[t].pc = "exc_log"
          /\ \E at \in {157, 162, 167} :
                /\ logs' = IF at = 157 THEN logs
                           ELSE add_processing_log(logs, tasks[t].doc, "error",
                                                   "Processing failed")
                /\ IF at = 167 /\ tasks[t].job_id # 0
                   THEN /\ jobs' = update_job_progress(jobs, tasks[t].job_id, 1, 1)
                        /\ tasks' = [tasks EXCEPT
                              ![t].pc = "done", ![t].outcome = "crashed",
                              ![t].nproc = @ + 1, ![t].nfail = @ + 1]
                   ELSE /\ jobs' = jobs
                        /\ tasks' = [tasks EXCEPT ![t].pc = "done",
                                                  ![t].outcome = "crashed"]
    /\ UNCHANGED <<docs, ingest, folder, reprocessLeft, completionWrites,
                   batch, scanAndVersions>>

InitStoreFaults ==
    /\ EmptyStore
    /\ folder \in {S \in SUBSET DocIds : Cardinality(S) <= MaxFilesStore}
    /\ faultsLeft = MaxFaultsStore
    /\ reprocessLeft = 0

\* The same as Next, where the store may fail under a running task.
NextStoreFaults ==
    \/ Next
    \/ \E t \in TaskIds : TaskStoreRaises(t)
    \/ \E t \in TaskIds : CheckJobRaises(t)
    \/ \E t \in TaskIds : TaskHandlerRaises(t)

SpecStoreFaults == InitStoreFaults /\ [][NextStoreFaults]_vars

\* ------------------------------------------------- batch_reprocess_documents

\* The id lists of a request.
BatchIdLists == UNION {[1..n -> DocIds] : n \in 0..MaxBatch}

\* documents.py 124-130: results = {"queued": [], "not_found": [], "failed": []}
BatchStart(ids) ==
    /\ batch.pc = "idle"
    /\ batch' = [pc |-> "loop", ids |-> ids, idx |-> 1,
                 queued |-> <<>>, not_found |-> <<>>, failed |-> <<>>]
    /\ UNCHANGED <<docs, jobs, logs, tasks, ingest, folder, faultsLeft,
                   reprocessLeft, completionWrites, scanAndVersions>>

\* The loop is at an id of the list.
BatchAtItem == batch.pc = "loop" /\ batch.idx <= Len(batch.ids)

\* documents.py 134-137: no row for the id; continue.
BatchNotFound ==
    /\ BatchAtItem
    /\ docs[batch.ids[batch.idx]] = NoDoc
    /\ batch' = [batch EXCEPT !.not_found = Append(@, batch.ids[batch.idx]),
                              !.idx = @ + 1]
    /\ UNCHANGED <<docs, jobs, logs, tasks, ingest, folder, faultsLeft,
                   reprocessLeft, completionWrites, scanAndVersions>>

\* documents.py 134-152: the row back to 'pending', one task queued with the
\* row's job_id, the id appended to queued.
BatchQueued ==
    /\ BatchAtItem
    /\ LET d == batch.ids[batch.idx] IN
         /\ docs[d] # NoDoc
         /\ docs' = update_document_status(docs, d, "pending", NULL)
         /\ tasks' = delay(tasks, d, docs[d].job_id)
         /\ batch' = [batch EXCEPT !.queued = Append(@, d), !.idx = @ + 1]
    /\ UNCHANGED <<jobs, logs, ingest, folder, faultsLeft, reprocessLeft,
                   completionWrites, scanAndVersions>>

\* documents.py 153-154: results["failed"].append({"drive_file_id", "error"})
BatchFailed(msg) ==
    [batch EXCEPT !.failed = Append(@, [drive_file_id |-> batch.ids[batch.idx],
                                        error |-> msg]),
                  !.idx = @ + 1]

\* documents.py 134 and 140: get_document_by_id or update_document_status
\* raises; nothing is written for the id.
BatchStoreFails ==
    /\ BatchAtItem
    /\ faultsLeft > 0
    /\ faultsLeft' = faultsLeft - 1
    /\ batch' = BatchFailed("Store failed")
    /\ UNCHANGED <<docs, jobs, logs, tasks, ingest, folder, reprocessLeft,
                   completionWrites, scanAndVersions>>

\* The exception of one id ending the request: HTTP 500, no results.
BatchDispatchAborts ==
    /\ BatchAtItem
    /\ docs[batch.ids[batch.idx]] # NoDoc
    /\ faultsLeft > 0
    /\ faultsLeft' = faultsLeft - 1
    /\ docs' = update_document_status(docs, batch.ids[batch.idx], "pending", NULL)
    /\ batch' = [batch EXCEPT !.pc = "error"]
    /\ UNCHANGED <<jobs, logs, tasks, ingest, folder, reprocessLeft,
                   completionWrites, scanAndVersions>>

\* documents.py 140-154: .delay raises after the row was reset.
BatchDispatchFails ==
    /\ BatchAtItem
    /\ docs[batch.ids[batch.idx]] # NoDoc
    /\ faultsLeft > 0
    /\ faultsLeft' = faultsLeft - 1
    /\ docs' = update_document_status(docs, batch.ids[batch.idx], "pending", NULL)
    /\ batch' = BatchFailed("Dispatch failed")
    /\ UNCHANGED <<jobs, logs, tasks, ingest, folder, reprocessLeft,
                   completionWrites, scanAndVersions>>

\* documents.py 156-159: the response with the three groups.
BatchReturn ==
    /\ batch.pc = "loop"
    /\ batch.idx > Len(batch.ids)
    /\ batch' = [batch EXCEPT !.pc = "returned"]
    /\ UNCHANGED <<docs, jobs, logs, tasks, ingest, folder, faultsLeft,
                   reprocessLeft, completionWrites, scanAndVersions>>

InitBatch ==
    /\ EmptyStore
    /\ folder \in {S \in SUBSET DocIds : Cardinality(S) <= MaxFilesBatch}
    /\ faultsLeft = MaxFaultsBatch
    /\ reprocessLeft = 0

\* One start_ingestion request and one batch request; the tasks stay queued.
NextBatch ==
    \/ StartIngestion
    \/ IngestCreateRecord
    \/ IngestDispatch
    \/ \E ids \in BatchIdLists : BatchStart(ids)
    \/ BatchNotFound
    \/ BatchQueued
    \/ BatchStoreFails
    \/ BatchDispatchFails
    \/ BatchReturn

SpecBatch == InitBatch /\ [][NextBatch]_vars

\* ------------------------------------------------- versioning_service.py

\* The documents that get versions.
VersionDocs == {1, 2}

\* The contents a version is made of.
VersionContents == {"x", "y"}

\* hashlib.sha256(content).hexdigest(): equal for equal contents only.
Checksum(content) == "sha256:" \o content

\* The version numbers of a document's rows.
VersionNumbers(rows) == {rows[i].version_number : i \in DOMAIN rows}

\* SELECT COALESCE(MAX(version_number), 0) + 1
next_version(rows) ==
    IF rows = <<>> THEN 1
    ELSE (CHOOSE n \in VersionNumbers(rows) :
             \A k \in VersionNumbers(rows) : k <= n) + 1

\* SELECT checksum ... ORDER BY version_number DESC LIMIT 1: the checksums
\* the statement can return (any row with the greatest number).
last_checksum(rows) ==
    {rows[i].checksum : i \in {i \in DOMAIN rows :
                                 rows[i].version_number = next_version(rows) - 1}}

\* versioning_service.py 13-24: a call arrives with its content.
VersionCall(c, d, content) ==
    /\ versionCalls[c] = NoCall
    /\ \A b \in CallIds : b < c => versionCalls[b] # NoCall
    /\ versionCalls' = [versionCalls EXCEPT ![c] =
          [pc |-> "select", doc |-> d, checksum |-> Checksum(content),
           next_version |-> 0, result |-> 0]]
    /\ UNCHANGED <<docs, jobs, logs, tasks, ingest, folder, faultsLeft,
                   reprocessLeft, completionWrites, batch, scan_sessions,
                   scan_progress, scan, document_versions>>

\* The checksums never compared: every call goes on to its INSERT.
VersionSelectAlwaysNew(c) ==
    /\ versionCalls[c].pc = "select"
    /\ versionCalls' = [versionCalls EXCEPT
          ![c].pc = "insert",
          ![c].next_version = next_version(document_versions[versionCalls[c].doc])]
    /\ UNCHANGED <<docs, jobs, logs, tasks, ingest, folder, faultsLeft,
                   reprocessLeft, completionWrites, batch, scan_sessions,
                   scan_progress, scan, document_versions>>

\* versioning_service.py 28-48: the next number and, when there is a version,
\* the latest checksum; equal checksums return the latest number.
VersionSelect(c) ==
    /\ versionCalls[c].pc = "select"
    /\ LET rows == document_versions[versionCalls[c].doc]
           next == next_version(rows)
       IN  \/ /\ next > 1
              /\ versionCalls[c].checksum \in last_checksum(rows)
              /\ versionCalls' = [versionCalls EXCEPT
                    ![c].pc = "returned", ![c].next_version = next,
                    ![c].result = next - 1]
           \/ /\ next = 1 \/ \E ch \in last_checksum(rows) :
                                  ch # versionCalls[c].checksum
              /\ versionCalls' = [versionCalls EXCEPT
                    ![c].pc = "insert", ![c].next_version = next]
    /\ UNCHANGED <<docs, jobs, logs, tasks, ingest, folder, faultsLeft,
                   reprocessLeft, completionWrites, batch, scan_sessions,
                   scan_progress, scan, document_versions>>

\* versioning_service.py 56-79: INSERT the row numbered next_version, commit,
\* return the number.
VersionInsert(c) ==
    /\ versionCalls[c].pc = "insert"
    /\ document_versions' = [document_versions EXCEPT ![versionCalls[c].doc] =
          Append(@, [version_number |-> versionCalls[c].next_version,
                     checksum |-> versionCalls[c].checksum])]
    /\ versionCalls' = [versionCalls EXCEPT
          ![c].pc = "returned", ![c].result = versionCalls[c].next_version]
    /\ UNCHANGED <<docs, jobs, logs, tasks, ingest, folder, faultsLeft,
                   reprocessLeft, completionWrites, batch, scan_sessions,
                   scan_progress, scan>>

\* versioning_service.py 56-83: where the table has a unique key on
\* (drive_file_id, version_number), the INSERT of a number another call has
\* taken meanwhile raises and the call fails.
VersionInsertRaises(c) ==
    /\ versionCalls[c].pc = "insert"
    /\ versionCalls[c].next_version
          \in VersionNumbers(document_versions[versionCalls[c].doc])
    /\ versionCalls' = [versionCalls EXCEPT ![c].pc = "raised"]
    /\ UNCHANGED <<docs, jobs, logs, tasks, ingest, folder, faultsLeft,
                   reprocessLeft, completionWrites, batch, scan_sessions,
                   scan_progress, scan, document_versions>>

\* The numbers of the keep_latest rows with the greatest numbers.
RECURSIVE LatestNumbers(_, _, _)
LatestNumbers(rows, I, keep_latest) ==
    IF keep_latest = 0 \/ I = {} THEN {}
    ELSE LET i == CHOOSE i \in I :
                    \A j \in I : rows[j].version_number <= rows[i].version_number
         IN  {rows[i].version_number}
                \cup LatestNumbers(rows, I \ {i}, keep_latest - 1)

\* versioning_service.py 210-232: DELETE the rows whose number is not among
\* those of the keep_latest latest rows.
delete_old_versions(rows, keep_latest) ==
    SelectSeq(rows, LAMBDA r :
        r.version_number \in LatestNumbers(rows, DOMAIN rows, keep_latest))

DeleteOldVersions(d, keep_latest) ==
    /\ document_versions' = [document_versions EXCEPT
                                ![d] = delete_old_versions(@, keep_latest)]
    /\ document_versions' # document_versions
    /\ UNCHANGED <<docs, jobs, logs, tasks, ingest, folder, faultsLeft,
                   reprocessLeft, completionWrites, batch, scan_sessions,
                   scan_progress, scan, versionCalls>>

InitVersions ==
    /\ EmptyStore
    /\ folder = {}
    /\ faultsLeft = 0
    /\ reprocessLeft = 0

\* create_document_version and delete_old_versions calls, in any interleaving.
NextVersions ==
    \/ \E c \in CallIds : \E d \in VersionDocs : \E content \in VersionContents :
          VersionCall(c, d, content)
    \/ \E c \in CallIds : VersionSelect(c)
    \/ \E c \in CallIds : VersionInsert(c)
    \/ \E c \in CallIds : VersionInsertRaises(c)
    \/ \E d \in VersionDocs : \E keep_latest \in 1..MaxKeep :
          DeleteOldVersions(d, keep_latest)

SpecVersions == InitVersions /\ [][NextVersions]_vars

\* ------------------------------------------------- scanner_service.py

\* The store calls of the scanner are modelled by the SQL statement each
\* issues, one atomic step per call.

\* Everything a scan leaves alone.
outsideScan == <<docs, jobs, logs, tasks, ingest, folder, faultsLeft,
                 reprocessLeft, completionWrites, batch, document_versions,
                 versionCalls>>

\* A Drive folder tree: the scanned folder holds `files` files and, when `sub`,
\* one sub-folder at place subAt of its listing, holding `subfiles` files.
Trees ==
    {t \in [files : 0..MaxRootFiles, sub : BOOLEAN, subfiles : 0..MaxSubFiles,
            subAt : 1..(MaxRootFiles + 1)] :
        /\ t.sub => t.subAt <= t.files + 1
        /\ ~t.sub => t.subfiles = 0 /\ t.subAt = 1}

Folders(tree) == IF tree.sub THEN {"root", "sub"} ELSE {"root"}

\* drive_service.files().list(q = "'<folder>' in parents"): the item types of
\* a folder, every folder fitting one page.
Listing(tree, f) ==
    IF f = "root"
    THEN [i \in 1..(tree.files + IF tree.sub THEN 1 ELSE 0) |->
             IF tree.sub /\ i = tree.subAt THEN "folder" ELSE "file"]
    ELSE [i \in 1..tree.subfiles |-> "file"]

\* scanner_service.py 142-193: every listed item counts, a sub-folder itself
\* included, plus what the sub-folder's own count returns; a folder whose
\* listing raises counts 0 and the caller goes on.
RECURSIVE count_folder_items_recursive(_, _, _)
count_folder_items_recursive(tree, f, failing) ==
    IF f \in failing THEN 0
    ELSE LET items == Listing(tree, f)
         IN  Len(items) +
             (IF \E i \in DOMAIN items : items[i] = "folder"
              THEN count_folder_items_recursive(tree, "sub", failing)
              ELSE 0)

\* round(scanned / total * 100, 2), in hundredths of a percent.
Pct(scanned, total) == (2 * 10000 * scanned + total) \div (2 * total)

\* scanner_service.py 380: the completion_percentage of the scan's result.
completion_percentage(scanned_count, total_items) ==
    IF total_items > 0 THEN Pct(scanned_count, total_items) ELSE 10000

\* scanner_service.py 429-431: the completion_percentage of a session row.
get_scan_session_progress(row) ==
    IF row.total_items # 0 /\ row.scanned_items # 0
    THEN Pct(row.scanned_items, row.total_items)
    ELSE 0

\* scanner_service.py 40-47: a new row, 'in_progress'; the counters are not
\* written and start at the column default.
create_scan_session(S) ==
    Append(S, [status |-> "in_progress", total_items |-> 0,
               scanned_items |-> 0])

\* scanner_service.py 131-136
add_scan_item(P, session_id, item_type, item_id, status) ==
    Append(P, [session_id |-> session_id, item_type |-> item_type,
               item_id |-> item_id, status |-> status])

\* routers/scanner.py 18-44: the endpoint creates a session, hands
\* perform_full_scan(folder_id, None) to the background and returns the id.
StartScan(tree) ==
    /\ scan.pc = "idle"
    /\ scan_sessions' = create_scan_session(scan_sessions)
    /\ scan' = [scan EXCEPT !.pc = "create", !.tree = tree,
                            !.returned = Len(scan_sessions) + 1]
    /\ UNCHANGED <<outsideScan, scan_progress>>

\* scanner_service.py 332-335: perform_full_scan creates its session.
ScanCreateSession ==
    /\ scan.pc = "create"
    /\ scan_sessions' = create_scan_session(scan_sessions)
    /\ scan' = [scan EXCEPT !.pc = "count",
                            !.session_id = Len(scan_sessions) + 1]
    /\ UNCHANGED <<outsideScan, scan_progress>>

\* scanner_service.py 340-346: count, then write total_items; `failing` are
\* the folders whose listing raises during the count.
ScanCount(failing) ==
    /\ scan.pc = "count"
    /\ LET total == count_folder_items_recursive(scan.tree, "root", failing)
       IN  /\ scan_sessions' = [scan_sessions EXCEPT
                                   ![scan.session_id].total_items = total]
           /\ scan' = [scan EXCEPT
                 !.pc = "list", !.total_items = total,
                 !.count_failed = failing,
                 !.stack = <<[folder |-> "root", items |-> <<>>, pos |-> 1]>>]
    /\ UNCHANGED <<outsideScan, scan_progress>>

\* scanner_service.py 342-346, 383-387: the write of total_items raises; the
\* handler sets the session 'failed' and re-raises.
ScanFails ==
    /\ scan.pc = "count"
    /\ scan_sessions' = [scan_sessions EXCEPT
                            ![scan.session_id].status = "failed"]
    /\ scan' = [scan EXCEPT !.pc = "done", !.outcome = "raised"]
    /\ UNCHANGED <<outsideScan, scan_progress>>

\* What follows the end of the innermost scan_folder_recursive call: the
\* caller's next item (270-272), or perform_full_scan's step 3 (359).
AfterReturn(stack) ==
    IF Len(stack) = 1 THEN [pc |-> "complete", stack |-> <<>>]
    ELSE [pc |-> "item",
          stack |-> [SubSeq(stack, 1, Len(stack) - 1) EXCEPT
                        ![Len(stack) - 1].pos = @ + 1]]

Top(stack) == stack[Len(stack)]

\* scanner_service.py 221-230: list the folder.
ScanList ==
    /\ scan.pc = "list"
    /\ scan' = [scan EXCEPT
          !.pc = "item",
          !.stack[Len(scan.stack)].items =
              Listing(scan.tree, Top(scan.stack).folder)]
    /\ UNCHANGED <<outsideScan, scan_sessions, scan_progress>>

\* scanner_service.py 223-228, 283-294: the listing raises; a 'failed' entry
\* for the folder is added and the call returns what it was given.
ScanListRaises ==
    /\ scan.pc = "list"
    /\ scan_progress' = add_scan_item(scan_progress, scan.session_id, "folder",
                                      Top(scan.stack).folder, "failed")
    /\ scan' = [scan EXCEPT
          !.pc = AfterReturn(scan.stack).pc,
          !.stack = AfterReturn(scan.stack).stack,
          !.scan_failed = @ \cup {Top(scan.stack).folder}]
    /\ UNCHANGED <<outsideScan, scan_sessions>>

\* The counter written once per folder, after its last item.
ScanAddItemBatched ==
    /\ scan.pc = "item"
    /\ Top(scan.stack).pos <= Len(Top(scan.stack).items)
    /\ LET top == Top(scan.stack)
       IN  /\ scan_progress' =
                 add_scan_item(scan_progress, scan.session_id,
                               top.items[top.pos], <<top.folder, top.pos>>,
                               "scanned")
           /\ scan' = [scan EXCEPT
                 !.pc = IF top.pos = Len(top.items) \/ top.items[top.pos] = "folder"
                        THEN "counter" ELSE "item",
                 !.stack[Len(scan.stack)].pos =
                     IF top.pos = Len(top.items) \/ top.items[top.pos] = "folder"
                     THEN @ ELSE @ + 1,
                 !.scanned_count = @ + 1]
    /\ UNCHANGED <<outsideScan, scan_sessions>>

\* scanner_service.py 232-256: the next item is counted, looked up and given
\* its 'scanned' entry.
ScanAddItem ==
    /\ scan.pc = "item"
    /\ Top(scan.stack).pos <= Len(Top(scan.stack).items)
    /\ LET top == Top(scan.stack)
       IN  scan_progress' =
               add_scan_item(scan_progress, scan.session_id,
                             top.items[top.pos], <<top.folder, top.pos>>,
                             "scanned")
    /\ scan' = [scan EXCEPT !.pc = "counter", !.scanned_count = @ + 1]
    /\ UNCHANGED <<outsideScan, scan_sessions>>

\* The counter written, a folder's children never scanned.
ScanUpdateCounterFlat ==
    /\ scan.pc = "counter"
    /\ scan_sessions' = [scan_sessions EXCEPT
          ![scan.session_id].scanned_items = scan.scanned_count]
    /\ scan' = [scan EXCEPT !.pc = "item", !.stack[Len(scan.stack)].pos = @ + 1]
    /\ UNCHANGED <<outsideScan, scan_progress>>

\* scanner_service.py 259-272: the session's scanned_items is written; a
\* folder is then scanned by a nested call that is given the running count.
ScanUpdateCounter ==
    /\ scan.pc = "counter"
    /\ scan_sessions' = [scan_sessions EXCEPT
          ![scan.session_id].scanned_items = scan.scanned_count]
    /\ LET top == Top(scan.stack)
       IN  IF top.items[top.pos] = "folder"
           THEN scan' = [scan EXCEPT
                   !.pc = "list",
                   !.stack = Append(@, [folder |-> "sub", items |-> <<>>,
                                        pos |-> 1])]
           ELSE scan' = [scan EXCEPT
                   !.pc = "item", !.stack[Len(scan.stack)].pos = @ + 1]
    /\ UNCHANGED <<outsideScan, scan_progress>>

\* scanner_service.py 279-281, 294: no item is left, the call returns.
ScanReturn ==
    /\ scan.pc = "item"
    /\ Top(scan.stack).pos > Len(Top(scan.stack).items)
    /\ scan' = [scan EXCEPT !.pc = AfterReturn(scan.stack).pc,
                            !.stack = AfterReturn(scan.stack).stack]
    /\ UNCHANGED <<outsideScan, scan_sessions, scan_progress>>

\* scanner_service.py 359-381: the session is completed with the final count
\* and the result carries the completion percentage.
ScanComplete ==
    /\ scan.pc = "complete"
    /\ scan_sessions' = [scan_sessions EXCEPT
          ![scan.session_id].status = "completed",
          ![scan.session_id].scanned_items = scan.scanned_count]
    /\ scan' = [scan EXCEPT
          !.pc = "done", !.outcome = "completed",
          !.completion_percentage =
              completion_percentage(scan.scanned_count, scan.total_items)]
    /\ UNCHANGED <<outsideScan, scan_progress>>

InitScan ==
    /\ EmptyStore
    /\ folder = {}
    /\ faultsLeft = 0
    /\ reprocessLeft = 0

\* One start_scan request and its background scan.
NextScan ==
    \/ \E tree \in Trees : StartScan(tree)
    \/ ScanCreateSession
    \/ \E failing \in SUBSET Folders(scan.tree) : ScanCount(failing)
    \/ ScanFails
    \/ ScanList
    \/ ScanListRaises
    \/ ScanAddItem
    \/ ScanUpdateCounter
    \/ ScanReturn
    \/ ScanComplete

SpecScan == InitScan /\ [][NextScan]_vars

\* ------------------------------------------------- what the claims speak of

Settled(t) == tasks[t] # NoTask /\ tasks[t].pc = "done"

\* The tasks that carry job j.
JobTasks(j) == {t \in Dispatched : tasks[t].job_id = j}

\* start_ingestion has returned and every task of job j has ended.
AllSettled(j) ==
    /\ jobs[j] # NoJob
    /\ ingest.pc = "returned"
    /\ \A t \in JobTasks(j) : Settled(t)

\* How often the task body has been entered for message t.
Executions(t) ==
    IF tasks[t] = NoTask THEN 0
    ELSE IF tasks[t].pc = "queued" THEN tasks[t].retries
    ELSE tasks[t].retries + 1

\* C1: for N workers that each call update_job_progress and then
\* check_and_complete_job for a job with total_files = N, the write of status
\* 'completed' is performed exactly once: never twice, and once when all
\* workers are through.
C1_ExactlyOneCompletion ==
    \A j \in JobIds :
        (\A t \in JobTasks(j) : tasks[t].retries = 0 /\ tasks[t].nfail = 0)
        => /\ completionWrites[j] <= 1
           /\ (AllSettled(j) /\ \A t \in JobTasks(j) :
                                  tasks[t].outcome = "completed")
                => completionWrites[j] = 1

\* C2: once every task of a job has reached its terminal outcome, whichever
\* it is, the job is 'completed' and not left 'running'.
C2_SettledJobIsCompleted ==
    \A j \in JobIds : AllSettled(j) => jobs[j].status = "completed"

\* C3: a task of a job increments processed_files exactly once over all its
\* attempts, and only at its final outcome: never before a retry.
C3_OneIncrementPerTask ==
    \A t \in Dispatched :
        tasks[t].job_id # 0 =>
            /\ tasks[t].nproc <= 1
            /\ tasks[t].pc = "queued" => tasks[t].nproc = 0
            /\ Settled(t) => tasks[t].nproc = 1

\* C4: a task that failed with transient errors on attempts 1 and 2 (a text
\* file cannot fail otherwise) and succeeded on attempt 3 leaves its document
\* 'completed' and has never incremented failed_files.
C4_RetriedSuccessCountsNoFailure ==
    \A t \in Dispatched :
        (/\ MimeOf(tasks[t].doc) = TXT
         /\ tasks[t].retries = 2
         /\ tasks[t].outcome = "completed")
        => /\ docs[tasks[t].doc].status = "completed"
           /\ tasks[t].nfail = 0

\* C5: processed_files of a job never decreases and never exceeds total_files.
C5_ProcessedBoundedByTotal ==
    [][\A j \in JobIds :
          /\ jobs'[j] # NoJob =>
                jobs'[j].processed_files <= jobs'[j].total_files
          /\ jobs[j] # NoJob =>
                jobs'[j].processed_files >= jobs[j].processed_files]_vars

\* C6: once all tasks dispatched for a job have settled, processed_files
\* equals total_files.
C6_SettledProcessedEqualsTotal ==
    \A j \in JobIds :
        AllSettled(j) => jobs[j].processed_files = jobs[j].total_files

\* C7: failed_files <= processed_files in every state of every job, and no
\* step adds more to failed_files than it adds to processed_files.
C7_FailedAtMostProcessed ==
    [][\A j \in JobIds :
          jobs'[j] # NoJob =>
            /\ jobs'[j].failed_files <= jobs'[j].processed_files
            /\ jobs[j] # NoJob =>
                  jobs'[j].failed_files - jobs[j].failed_files
                    <= jobs'[j].processed_files - jobs[j].processed_files]_vars

\* A job that has counted failures, and successes besides.
C7_Witness ==
    \E j \in JobIds :
        /\ jobs[j] # NoJob
        /\ jobs[j].failed_files >= 2
        /\ jobs[j].processed_files > jobs[j].failed_files

\* C8: an attempt on which the extractor raised is not retried.
C8_ExtractionFailureIsPermanent ==
    \A t \in Dispatched :
        tasks[t].err = "Extraction failed" =>
            /\ tasks[t].pc \in {"exc_status", "exc_log", "done"}
            /\ Settled(t) => docs[tasks[t].doc].status = "failed"

\* What one step does to a task on the permanent-failure path.
PermanentFailureStep(t) ==
    LET a == tasks[t]
        b == tasks'[t]
        j == a.job_id
    IN  /\ (a.pc = "download" /\ b.pc # "download"
              /\ ExtractorFor(MimeOf(a.doc)) = "none")
            => \/ b.pc = "fail_status" /\ b.err = UnsupportedMsg(MimeOf(a.doc))
               \/ b.pc = "exc_status" /\ b.err = "Download failed"
        /\ (a.pc = "download" /\ b.pc = "fail_status")
            => b.err \in {UnsupportedMsg(MimeOf(a.doc)), NoTextMsg}
        /\ (a.pc = "fail_status" /\ b.pc # "fail_status")
            => /\ b.pc = "fail_log"
               /\ docs'[a.doc].status = "failed"
               /\ docs'[a.doc].error_message = a.err
        /\ (a.pc = "fail_log" /\ b.pc # "fail_log")
            => /\ b.pc = "done" /\ b.outcome = "failed"
               /\ b.retries = a.retries
               /\ docs'[a.doc].status = "failed"
               /\ docs'[a.doc].error_message = a.err
               /\ j # 0 =>
                    /\ jobs'[j].processed_files = jobs[j].processed_files + 1
                    /\ jobs'[j].failed_files = jobs[j].failed_files + 1
        /\ a.pc = "done" => b = a

\* The 3-file job with one unsupported file, every task through on its first
\* attempt and the two other documents 'completed'.
ThreeFileJobSettled ==
    /\ folder = {1, 2, 3}
    /\ AllSettled(1)
    /\ \A t \in JobTasks(1) : tasks[t].retries = 0
    /\ \A d \in folder :
          ExtractorFor(MimeOf(d)) # "none" => docs[d].status = "completed"

\* C9: a task whose file has no extractor, or whose text is empty, ends on
\* that attempt: document 'failed' with the message, no retry, processed_files
\* and failed_files each + 1; the 3-file job with one unsupported file ends at
\* total_files = 3, processed_files = 3, failed_files = 1.
C9_PermanentFailureEndsTask ==
    /\ [][\A t \in Dispatched : PermanentFailureStep(t)]_vars
    /\ [](ThreeFileJobSettled =>
            /\ jobs[1].total_files = 3
            /\ jobs[1].processed_files = 3
            /\ jobs[1].failed_files = 1
            /\ \A d \in folder :
                  ExtractorFor(MimeOf(d)) = "none" =>
                    /\ docs[d].status = "failed"
                    /\ docs[d].error_message = UnsupportedMsg(MimeOf(d)))

C9_Witness ==
    /\ ThreeFileJobSettled
    /\ jobs[1].processed_files = 3
    /\ jobs[1].failed_files = 1
    /\ docs[3].status = "failed"
    /\ docs[3].error_message = "Unsupported mime type: image/png"
    /\ \E t \in Dispatched : tasks[t].doc = 3 /\ tasks[t].outcome = "failed"

\* C10 as stated: the task body runs at most 3 times for one dispatch.
C10_AtMostThreeExecutions ==
    \A t \in TaskIds : Executions(t) <= 3

\* C10 as the code has it: the body runs at most max_retries + 1 = 4 times;
\* when the last of them raises, the document is 'failed' with that attempt's
\* message and the task has ended for good; every dispatched task settles.
C10_BoundedRetries ==
    /\ [](\A t \in Dispatched :
            /\ Executions(t) <= max_retries + 1
            /\ tasks[t].outcome = "exhausted" =>
                  /\ Settled(t)
                  /\ tasks[t].retries = max_retries
                  /\ docs[tasks[t].doc].status = "failed"
                  /\ docs[tasks[t].doc].error_message = tasks[t].err)
    /\ [][\A t \in Dispatched : Settled(t) => tasks'[t] = tasks[t]]_vars
    /\ []<>(\A t \in Dispatched : Settled(t))

\* A task whose fourth execution failed on the download.
C10_Witness ==
    \E t \in Dispatched :
        /\ tasks[t].outcome = "exhausted"
        /\ tasks[t].err = "Download failed"
        /\ Executions(t) = 4
        /\ docs[tasks[t].doc].status = "failed"

\* C11: a task for a document is queued or running only while the store has
\* the document's row: start_ingestion writes the pending row of a file before
\* it dispatches the file's task.
C11_RowBeforeDispatch ==
    \A t \in Dispatched : docs[tasks[t].doc] # NoDoc

\* start_ingestion in its loop, a task already queued on its pending row.
C11_Witness ==
    /\ ingest.pc = "create_record"
    /\ \E t \in Dispatched :
          /\ tasks[t].pc = "queued"
          /\ docs[tasks[t].doc].status = "pending"
          /\ docs[tasks[t].doc].job_id = tasks[t].job_id

\* C12: with an empty listing start_ingestion answers no-files-found and has
\* written nothing: no job row, no document row, no task.
C12_NoFilesNoWrites ==
    /\ [](ingest.pc = "no_files" =>
            /\ \A j \in JobIds : jobs[j] = NoJob
            /\ \A d \in DocIds : docs[d] = NoDoc
            /\ Dispatched = {})
    /\ [][ingest'.pc = "no_files" => UNCHANGED <<docs, jobs, logs, tasks>>]_vars

C12_Witness ==
    /\ folder = {}
    /\ ingest.pc = "no_files"

\* C13: once start_ingestion has returned, normally or with an error, a job it
\* created that is still 'running' has had exactly total_files tasks
\* dispatched.
C13_RunningJobHasAllTasks ==
    \A j \in JobIds :
        (/\ ingest.pc \in {"returned", "error"}
         /\ jobs[j] # NoJob
         /\ jobs[j].status = "running")
        => Cardinality(JobTasks(j)) = jobs[j].total_files

\* What reprocess_document(d) is to do in one step.
ReprocessEffect(d) ==
    IF docs[d] = NoDoc
    THEN UNCHANGED <<docs, jobs, logs, tasks>>
    ELSE /\ docs'[d].status = "pending"
         /\ docs'[d].job_id = docs[d].job_id
         /\ \A e \in DocIds \ {d} : docs'[e] = docs[e]
         /\ \E t \in TaskIds :
               /\ tasks[t] = NoTask
               /\ tasks'[t] # NoTask
               /\ tasks'[t].pc = "queued"
               /\ tasks'[t].retries = 0
               /\ tasks'[t].doc = d
               /\ tasks'[t].job_id = docs[d].job_id
               /\ \A u \in TaskIds \ {t} : tasks'[u] = tasks[u]
         /\ UNCHANGED jobs

\* C14: reprocess of an existing document sets it 'pending', queues exactly
\* one task with the document's stored job reference and leaves that
\* reference and every other document alone; for an unknown id it changes
\* nothing.
C14_ReprocessResetsAndRedispatches ==
    [][\A d \in DocIds : Reprocess(d) => ReprocessEffect(d)]_vars

\* A document whose first task has ended, reprocessed: 'pending' again, its
\* second task queued with the same job.
C14_Witness ==
    /\ reprocessLeft = 0
    /\ \E t, u \in Dispatched :
          /\ t # u
          /\ tasks[t].doc = tasks[u].doc
          /\ Settled(u)
          /\ tasks[t].pc = "queued"
          /\ tasks[t].job_id = tasks[u].job_id
          /\ docs[tasks[t].doc].status = "pending"
          /\ docs[tasks[t].doc].job_id = tasks[t].job_id

\* How often x is in the list.
Count(seq, x) == Cardinality({i \in DOMAIN seq : seq[i] = x})

\* How often x is among the failed entries.
CountFailed(x) ==
    Cardinality({i \in DOMAIN batch.failed : batch.failed[i].drive_file_id = x})

\* C15: batch reprocess puts every id of its list in exactly one of queued,
\* not_found and failed, and goes on to the next id whatever happened to the
\* one before: the ids handled so far are partitioned, and the response comes
\* only after the last id.
C15_BatchPartitionsEveryId ==
    /\ [](batch.pc \in {"loop", "returned"} =>
            /\ \A x \in DocIds :
                  Count(SubSeq(batch.ids, 1, batch.idx - 1), x)
                    = Count(batch.queued, x) + Count(batch.not_found, x)
                      + CountFailed(x)
            /\ batch.pc = "returned" => batch.idx = Len(batch.ids) + 1)
    /\ [](batch.pc \in {"idle", "loop", "returned"})
    /\ [][(batch' # batch /\ BatchAtItem) =>
            /\ batch'.pc = "loop"
            /\ batch'.ids = batch.ids
            /\ batch'.idx = batch.idx + 1]_vars

\* A request whose first id failed and whose second id was queued all the same.
C15_Witness ==
    /\ batch.pc = "returned"
    /\ Len(batch.ids) = 2
    /\ Len(batch.failed) = 1
    /\ batch.failed[1].drive_file_id = batch.ids[1]
    /\ batch.queued = <<batch.ids[2]>>
    /\ \E t \in Dispatched :
          tasks[t].doc = batch.ids[2] /\ tasks[t].job_id = docs[batch.ids[2]].job_id

\* C16: an enrichment error after the document was stored leaves the status
\* 'completed' and the task neither failed nor retried; the task goes on to
\* add 1 to processed_files and nothing to failed_files.
C16_EnrichmentErrorIsHarmless ==
    /\ [][\A t \in Dispatched :
            (tasks[t].pc = "enrich" /\ tasks'[t].pc # "enrich") =>
                /\ docs' = docs
                /\ docs[tasks[t].doc].status = "completed"
                /\ tasks'[t].retries = tasks[t].retries
                /\ tasks'[t].nfail = tasks[t].nfail
                /\ tasks'[t].pc = IF tasks[t].job_id # 0 THEN "progress" ELSE "done"
                /\ tasks'[t].outcome \in {"none", "completed"}]_vars
    /\ [][\A t \in Dispatched :
            (tasks[t].pc = "progress" /\ tasks'[t].pc # "progress") =>
                LET j == tasks[t].job_id IN
                /\ jobs'[j].processed_files = jobs[j].processed_files + 1
                /\ jobs'[j].failed_files = jobs[j].failed_files
                /\ docs'[tasks[t].doc].status = "completed"
                /\ tasks'[t].pc = "check"]_vars
    /\ [](\A t \in Dispatched :
            <<"warning", "Enrichment failed">> \in logs[tasks[t].doc] =>
                /\ docs[tasks[t].doc].status = "completed"
                /\ tasks[t].pc \in {"progress", "check", "complete", "done"}
                /\ tasks[t].outcome \in {"none", "completed"})

\* A task that ended 'completed' on its first attempt although its enrichment
\* failed, counted once and not as a failure.
C16_Witness ==
    \E t \in Dispatched :
        /\ Settled(t)
        /\ tasks[t].outcome = "completed"
        /\ tasks[t].retries = 0
        /\ <<"warning", "Enrichment failed">> \in logs[tasks[t].doc]
        /\ docs[tasks[t].doc].status = "completed"
        /\ tasks[t].nproc = 1
        /\ tasks[t].nfail = 0

\* C17: a 'completed' document has its embedding and its full_text_length,
\* and a snippet no longer than full_text_length; no step writes 'completed'
\* without them.
C17_CompletedHasData ==
    /\ [](\A d \in DocIds :
            (docs[d] # NoDoc /\ docs[d].status = "completed") =>
                /\ docs[d].embedding
                /\ docs[d].full_text_length # NullLen
                /\ docs[d].snippet_length # NullLen
                /\ docs[d].snippet_length <= docs[d].full_text_length
                /\ docs[d].snippet_length <= snippet_chars)
    /\ [][\A d \in DocIds :
            (/\ docs'[d] # NoDoc
             /\ docs'[d].status = "completed"
             /\ docs[d] = NoDoc \/ docs[d].status # "completed") =>
                /\ docs'[d].embedding
                /\ docs'[d].full_text_length # NullLen]_vars

\* A long document and a short one, both 'completed': the one's snippet cut
\* to 500 characters, the other's the whole text.
C17_Witness ==
    \E d, e \in DocIds :
        /\ docs[d] # NoDoc /\ docs[d].status = "completed"
        /\ docs[e] # NoDoc /\ docs[e].status = "completed"
        /\ docs[d].full_text_length > snippet_chars
        /\ docs[d].snippet_length = snippet_chars
        /\ docs[e].full_text_length < snippet_chars
        /\ docs[e].snippet_length = docs[e].full_text_length

\* The inputs of a store_result call: job reference (0 for none) and text.
StoreInputs == (JobIds \cup {0}) \X {"words\n", "words"}

\* C18: from any state of the documents table, insert_document called twice
\* with the same inputs leaves the table as one call does.
C18_InsertTwiceIsInsertOnce ==
    \A d \in DocIds : \A args \in StoreInputs :
        LET once == insert_document(docs, d, args[1], SnippetLength(args[2]),
                                    TextLength(args[2]))
            twice == insert_document(once, d, args[1], SnippetLength(args[2]),
                                     TextLength(args[2]))
        IN  /\ twice = once
            /\ once[d].status = "completed"
            /\ \A e \in DocIds \ {d} : once[e] = docs[e]

\* A document stored by two tasks with the same file and job.
C18_Witness ==
    \E t, u \in Dispatched :
        /\ t # u
        /\ tasks[t].doc = tasks[u].doc
        /\ tasks[t].job_id = tasks[u].job_id
        /\ tasks[t].pc \in {"enrich", "progress", "check", "complete"}
        /\ Settled(u) /\ tasks[u].outcome = "completed"
        /\ docs[tasks[t].doc].status = "completed"
        /\ docs[tasks[t].doc].embedding

\* C19: a 'completed' document has no error message, also after failed
\* attempts and when two tasks of the same document interleave.
C19_CompletedHasNoError ==
    \A d \in DocIds :
        (docs[d] # NoDoc /\ docs[d].status = "completed")
            => docs[d].error_message = NULL

\* The status of a row, "absent" where there is none.
StatusOf(D, d) == D[d].status

\* C20: a document's status moves only pending -> processing -> completed or
\* failed, failed -> processing, and to pending when the row is created or
\* the document is reprocessed.
C20_StatusMovesForward ==
    [][\A d \in DocIds :
          StatusOf(docs', d) # StatusOf(docs, d) =>
              \/ <<StatusOf(docs, d), StatusOf(docs', d)>> \in
                    {<<"absent", "pending">>, <<"pending", "processing">>,
                     <<"processing", "completed">>, <<"processing", "failed">>,
                     <<"failed", "processing">>}
              \/ StatusOf(docs', d) = "pending" /\ Reprocess(d)]_vars

\* C21: a call whose checksum is that of the latest version it reads creates
\* no row and returns the latest number; a call with another checksum, or for
\* a document without versions, creates exactly one row, numbered latest + 1
\* and carrying its checksum.
C21_VersionOnlyForNewContent ==
    [][\A c \in CallIds :
          LET a == versionCalls[c]
              b == versionCalls'[c]
              rows == document_versions[a.doc]
          IN  /\ (a.pc = "select" /\ b.pc = "returned") =>
                    /\ rows # <<>>
                    /\ a.checksum \in last_checksum(rows)
                    /\ b.result = next_version(rows) - 1
                    /\ UNCHANGED document_versions
              /\ (a.pc = "select" /\ b.pc = "insert") =>
                    /\ rows = <<>> \/ \E ch \in last_checksum(rows) :
                                          ch # a.checksum
                    /\ b.next_version = next_version(rows)
                    /\ UNCHANGED document_versions
              /\ (a.pc = "insert" /\ b.pc = "returned") =>
                    /\ document_versions'[a.doc] =
                          Append(rows, [version_number |-> a.next_version,
                                        checksum |-> a.checksum])
                    /\ \A d \in DocIds \ {a.doc} :
                          document_versions'[d] = document_versions[d]
                    /\ b.result = a.next_version]_vars

\* Version 1 and 2 of a document with different contents, and a third call
\* with the content of version 2 that returned 2 and wrote nothing.
C21_Witness ==
    \E d \in VersionDocs : \E c \in CallIds :
        /\ Len(document_versions[d]) = 2
        /\ document_versions[d][1].version_number = 1
        /\ document_versions[d][2].version_number = 2
        /\ document_versions[d][1].checksum # document_versions[d][2].checksum
        /\ \A b \in CallIds : versionCalls[b].pc = "returned"
        /\ versionCalls[c].doc = d
        /\ versionCalls[c].next_version = 3
        /\ versionCalls[c].result = 2
        /\ versionCalls[c].checksum = document_versions[d][2].checksum

\* C22: the version numbers stored for a document are exactly 1..k, without
\* gap and without duplicate.
C22_VersionNumbersContiguous ==
    \A d \in DocIds :
        /\ VersionNumbers(document_versions[d]) = 1..Len(document_versions[d])

\* The 'scanned' entries of a session.
ScannedEntries(s) ==
    Cardinality({i \in DOMAIN scan_progress :
                    /\ scan_progress[i].session_id = s
                    /\ scan_progress[i].status = "scanned"})

ItemsOf(tree) ==
    tree.files + (IF tree.sub THEN 1 + tree.subfiles ELSE 0)

\* A scan that completed with every listing of both phases answered.
CompletedAllListed ==
    /\ scan.pc = "done"
    /\ scan.outcome = "completed"
    /\ scan.count_failed = {}
    /\ scan.scan_failed = {}

TenFilesAndEmptySubFolder(tree) ==
    tree.files = 10 /\ tree.sub /\ tree.subfiles = 0

CappedPct(scanned, total) ==
    IF total = 0 THEN 10000
    ELSE IF Pct(scanned, total) > 10000 THEN 10000 ELSE Pct(scanned, total)

\* C25: the completion percentage of a completed scan, in the result of
\* perform_full_scan and as get_scan_session_progress reports it for the
\* scan's session, is 100 when total_items is 0 and
\* scanned_items / total_items * 100 capped at 100 otherwise.
C25_PercentageCapped ==
    (scan.pc = "done" /\ scan.outcome = "completed") =>
        /\ scan.completion_percentage =
              CappedPct(scan.scanned_count, scan.total_items)
        /\ get_scan_session_progress(scan_sessions[scan.session_id]) =
              CappedPct(scan_sessions[scan.session_id].scanned_items,
                        scan_sessions[scan.session_id].total_items)

\* C30: when the background scan has ended, the session whose id start_scan
\* returned carries the scan's counters and has left 'in_progress', and the
\* request has created one session.
C30_ReturnedSessionIsScanned ==
    scan.pc = "done" =>
        /\ Len(scan_sessions) = 1
        /\ scan_sessions[scan.returned].status \in {"completed", "failed"}
        /\ scan.outcome = "completed" =>
              /\ scan_sessions[scan.returned].total_items = scan.total_items
              /\ scan_sessions[scan.returned].scanned_items = scan.scanned_count

\* C26: a document in status 'failed' has a log entry explaining the failure:
\* the warning carrying its error message, or the error line of the except
\* branch.
C26_FailedHasLogEntry ==
    \A d \in DocIds :
        (docs[d] # NoDoc /\ docs[d].status = "failed") =>
            \/ <<"warning", docs[d].error_message>> \in logs[d]
            \/ <<"error", "Processing failed">> \in logs[d]

\* C27: while a job is 'completed', no document of the job is 'pending' or
\* 'processing' and no task of the job waits in the queue.
C27_CompletedJobHasSettled ==
    \A j \in JobIds :
        (jobs[j] # NoJob /\ jobs[j].status = "completed") =>
            /\ \A d \in DocIds :
                  (docs[d] # NoDoc /\ docs[d].job_id = j) =>
                      docs[d].status \notin {"pending", "processing"}
            /\ \A t \in JobTasks(j) : tasks[t].pc # "queued"

\* The attempt of task t that is under way has stored its result.
StoredThisAttempt(t) ==
    /\ tasks[t] # NoTask
    /\ \/ tasks[t].pc \in {"enrich", "progress", "check", "complete"}
       \/ /\ tasks[t].pc \in {"exc_status", "exc_log"}
          /\ tasks[t].err = StoreDownAfterInsertMsg

\* C28: once an attempt has stored its result, no later step of that attempt
\* sets the document to 'failed', increments failed_files or re-queues the
\* task.
C28_StoredResultStays ==
    [][\A t \in TaskIds :
          (StoredThisAttempt(t) /\ tasks'[t] # tasks[t]) =>
              /\ docs'[tasks[t].doc].status # "failed"
              /\ tasks'[t].nfail = tasks[t].nfail
              /\ tasks'[t].pc # "queued"]_vars

\* C29: a task that has ended leaves its document 'completed' or 'failed',
\* and it has not ended on an error while attempts remained.
C29_EndsRetriedOrTerminal ==
    \A t \in TaskIds :
        Settled(t) =>
            /\ docs[tasks[t].doc].status \in {"completed", "failed"}
            /\ tasks[t].outcome \notin {"completed", "failed"}
                  => tasks[t].retries = max_retries

====
